---- MODULE Spec2Model ----
(***************************************************************************)
(* A model of the mini-react reconciliation engine (src/index.js).         *)
(*                                                                         *)
(* Work units (fibers) and host nodes are JavaScript objects with          *)
(* identity; both live in append-only heaps (sequences), an object's       *)
(* reference being its index and Null the absent reference.  The module    *)
(* level variables of the source keep their names.  Every function of the  *)
(* source is an operator over a machine record m holding the heaps and the *)
(* module-level variables; an exception thrown by a host primitive is the  *)
(* field threw, after which the remaining statements are skipped.          *)
(***************************************************************************)
EXTENDS Integers, Sequences, FiniteSets, TLC

VARIABLES
  fibers,          \* heap of work units
  doms,            \* heap of host nodes (the document)
  nextUnitOfWork,  \* let nextUnitOfWork
  currentRoot,     \* let currentRoot
  wipRoot,         \* let wipRoot
  deletions,       \* let deletions
  wipFiber,        \* let wipFiber
  hookIndex,       \* let hookIndex
  scheduled,       \* an idle callback for workLoop is pending
  lastOp,          \* history: the kind of the last step
  history,         \* history: every request and commit so far
  visited,         \* history: units processed by the walk in progress
  afterWalk,       \* history: the machine when the last workLoop left its loop
  clean,           \* history: the machine had no unit of a discarded walk been processed
  expected,        \* history: the machine the last commit gives from clean in one slice
  sliceUnits       \* history: units processed by the last workLoop callback

vars == <<fibers, doms, nextUnitOfWork, currentRoot, wipRoot, deletions,
          wipFiber, hookIndex, scheduled, lastOp, history, visited,
          afterWalk, clean, expected, sliceUnits>>

-----------------------------------------------------------------------------
(* Bounds *)

\* Number of render calls and update-capability invocations in a run.
MaxGen == 3

\* The same in the runs over TreeNames.
MaxTreeGen == 2

\* Number of prop diffs applied to one host node in the runs of SpecDiff.
MaxDiffs == 2

\* Largest number of estimates at or above the threshold one deadline returns:
\* a slice processes at most MaxBudget + 1 units, which is every unit of the
\* largest tree below.
MaxBudget == 7

-----------------------------------------------------------------------------
(* Values *)

Null == 0

\* The host container, document.getElementById("root").
container == 1

\* deadline.timeRemaining() < 1
YieldThreshold == 1

Components == {"Counter"}

EventKeys == {"onClick", "onInput"}

\* key.startsWith("on"), over the keys the elements below use
isEvent(key) == key \in EventKeys

isProperty(key) == key # "children" /\ ~isEvent(key)

\* Faulty variant: a key of both props is never new, whatever its values.
isNewKeyOnly(prev, next, key) == key \notin DOMAIN prev

isNew(prev, next, key) == key \notin DOMAIN prev \/ prev[key] # next[key]

isGone(prev, next, key) == key \notin DOMAIN next

\* name.toLowerCase().substring(2)
eventType(name) ==
  CASE name = "onClick" -> "click"
    [] name = "onInput" -> "input"

\* Update functions handed to an update capability; "inc" is the Counter's c => c + 1.
Actions == {"inc", "dbl"}

ApplyAction(action, state) ==
  CASE action = "inc" -> state + 1
    [] action = "dbl" -> state * 2

createTextElement(text) ==
  [type |-> "TEXT_ELEMENT", props |-> [nodeValue |-> text, children |-> <<>>]]

\* A child argument is an element description or a primitive, written [prim |-> v].
createElement(type, props, children) ==
  [type |-> type,
   props |-> ("children" :>
                [i \in 1..Len(children) |->
                   IF DOMAIN children[i] = {"type", "props"}
                   THEN children[i]
                   ELSE createTextElement(children[i].prim)])
             @@ props]

NoProps == <<>>

\* The element descriptions render is called with.
ElementNames == {"ab", "ba", "xb"}

\* The same with element descriptions of fewer children, for the runs that
\* look at one reconciliation.
TreeNames == ElementNames \cup {"a", "e"}

Element(name) ==
  CASE name = "ab" -> createElement("div", [id |-> "box"],
                        << createElement("span", NoProps, <<>>),
                           createElement("p", NoProps, <<>>) >>)
    [] name = "ba" -> createElement("div", [id |-> "box"],
                        << createElement("p", NoProps, <<>>),
                           createElement("span", NoProps, <<>>) >>)
    [] name = "xb" -> createElement("div", [id |-> "box"],
                        << createElement("Counter", NoProps, <<>>),
                           createElement("p", NoProps, <<>>) >>)
    [] name = "a"  -> createElement("div", [id |-> "box"],
                        << createElement("span", NoProps, <<>>) >>)
    [] name = "e"  -> createElement("div", [id |-> "box"], <<>>)

-----------------------------------------------------------------------------
(* Host tree primitives *)

\* A host node; calls is the log of the listener calls made on it.
NewNode(tag) ==
  [tag |-> tag, attrs |-> <<>>, listeners |-> {}, children |-> <<>>, parent |-> Null,
   calls |-> <<>>]

Remove(seq, x) == SelectSeq(seq, LAMBDA y : y # x)

InSeq(seq, x) == \E i \in 1..Len(seq) : seq[i] = x

RECURSIVE IsInclusiveAncestor(_, _, _)
IsInclusiveAncestor(d, a, n) ==
  IF n = Null THEN FALSE
  ELSE IF n = a THEN TRUE
  ELSE IsInclusiveAncestor(d, a, d[n].parent)

\* parent.appendChild(node): the node leaves its present parent first.
appendChild(m, parent, node) ==
  IF IsInclusiveAncestor(m.doms, node, parent) \/ m.doms[parent].tag = "#text"
  THEN [m EXCEPT !.threw = TRUE]
  ELSE LET old == m.doms[node].parent
           d1 == IF old = Null THEN m.doms
                 ELSE [m.doms EXCEPT ![old].children = Remove(@, node)]
           d2 == [d1 EXCEPT ![parent].children = Append(@, node),
                            ![node].parent = parent]
       IN [m EXCEPT !.doms = d2]

\* parent.removeChild(node): NotFoundError when node is not a child of parent.
removeChild(m, parent, node) ==
  IF ~InSeq(m.doms[parent].children, node)
  THEN [m EXCEPT !.threw = TRUE]
  ELSE [m EXCEPT !.doms = [@ EXCEPT ![parent].children = Remove(@, node),
                                    ![node].parent = Null]]

\* dom[name] = value, for every name of keys: the host stores a string.
setProperties(node, keys, values) ==
  [node EXCEPT !.attrs = [k \in (DOMAIN @) \cup keys |->
                             IF k \in keys THEN values[k] ELSE @[k]]]

\* The keys of a filtered Object.keys(...), in one order.
RECURSIVE SeqOf(_)
SeqOf(keys) ==
  IF keys = {} THEN <<>>
  ELSE LET k == CHOOSE x \in keys : TRUE
       IN <<k>> \o SeqOf(keys \ {k})

\* The calls of one forEach over listener keys: op(eventType, props[name]).
ListenerCalls(op, ks, props) ==
  [i \in 1..Len(ks) |-> <<op, eventType(ks[i]), props[ks[i]]>>]

\* dom.addEventListener(type, listener): a listener already attached is not added twice.
addEventListeners(node, keys, props) ==
  [node EXCEPT !.listeners = @ \cup {<<eventType(k), props[k]>> : k \in keys},
               !.calls = @ \o ListenerCalls("add", SeqOf(keys), props)]

\* dom.removeEventListener(type, listener): no effect when it is not attached.
removeEventListeners(node, keys, props) ==
  [node EXCEPT !.listeners = @ \ {<<eventType(k), props[k]>> : k \in keys},
               !.calls = @ \o ListenerCalls("remove", SeqOf(keys), props)]

-----------------------------------------------------------------------------
(* updateDom, createDom *)

\* The four passes of updateDom, in the source's order, on one host node.
updateDomNode(node, prevProps, nextProps) ==
  LET removed == {k \in DOMAIN prevProps :
                    isEvent(k) /\ (k \notin DOMAIN nextProps \/ isNew(prevProps, nextProps, k))}
      gone    == {k \in DOMAIN prevProps :
                    isProperty(k) /\ isGone(prevProps, nextProps, k)}
      changed == {k \in DOMAIN nextProps :
                    isProperty(k) /\ isNew(prevProps, nextProps, k)}
      added   == {k \in DOMAIN nextProps :
                    isEvent(k) /\ isNew(prevProps, nextProps, k)}
      n1 == removeEventListeners(node, removed, prevProps)
      n2 == setProperties(n1, gone, [k \in gone |-> ""])
      n3 == setProperties(n2, changed, [k \in changed |-> ToString(nextProps[k])])
  IN addEventListeners(n3, added, nextProps)

updateDom(m, dom, prevProps, nextProps) ==
  [m EXCEPT !.doms = [@ EXCEPT ![dom] = updateDomNode(@, prevProps, nextProps)]]

\* Returns the machine with the new node last in the heap.
createDom(m, fiber) ==
  LET f == m.fibers[fiber]
      node == IF f.type = "TEXT_ELEMENT" THEN NewNode("#text") ELSE NewNode(f.type)
  IN updateDom([m EXCEPT !.doms = Append(@, node)], Len(m.doms) + 1, <<>>, f.props)

-----------------------------------------------------------------------------
(* Work units *)

Undefined == "undefined"

Fiber(type, props, dom, parent, alternate, effectTag) ==
  [type |-> type, props |-> props, dom |-> dom, parent |-> parent,
   child |-> Null, sibling |-> Null, alternate |-> alternate,
   effectTag |-> effectTag, hooks |-> <<>>]

\* The object literal of render and setState: { dom, props, alternate }.
RootFiber(dom, props, alternate) ==
  Fiber(Undefined, props, dom, Null, alternate, Undefined)

-----------------------------------------------------------------------------
(* reconcileChildren *)

\* One iteration of the while loop; index counts from 0 as in the source.
RECURSIVE reconcileLoop(_, _, _, _, _, _)
reconcileLoop(m, parent, elements, index, oldFiber, prevSibling) ==
  IF ~(index < Len(elements) \/ oldFiber # Null) THEN m
  ELSE
    LET hasElement == index < Len(elements)
        element == elements[index + 1]
        sameType == oldFiber # Null /\ hasElement
                    /\ element.type = m.fibers[oldFiber].type
        newFiber == IF sameType
                    THEN Fiber(m.fibers[oldFiber].type, element.props,
                               m.fibers[oldFiber].dom, parent, oldFiber, "UPDATE")
                    ELSE Fiber(element.type, element.props, Null, parent, Null,
                               "PLACEMENT")
        new == IF hasElement THEN Len(m.fibers) + 1 ELSE Null
        deleted == oldFiber # Null /\ ~sameType
        f1 == IF hasElement THEN Append(m.fibers, newFiber) ELSE m.fibers
        f2 == IF deleted THEN [f1 EXCEPT ![oldFiber].effectTag = "DELETION"] ELSE f1
        f3 == IF index = 0 THEN [f2 EXCEPT ![parent].child = new]
              ELSE IF hasElement THEN [f2 EXCEPT ![prevSibling].sibling = new]
              ELSE f2
        m1 == [m EXCEPT !.fibers = f3,
                        !.deletions = IF deleted THEN Append(@, oldFiber) ELSE @]
    IN reconcileLoop(m1, parent, elements, index + 1,
                     IF oldFiber # Null THEN m.fibers[oldFiber].sibling ELSE Null,
                     new)

\* Faulty variant: the previous generation's children are not looked up.
reconcileChildrenNoOld(m, parent, elements) ==
  reconcileLoop(m, parent, elements, 0, Null, Null)

\* Faulty variant: the old units marked DELETION are not pushed on deletions.
reconcileChildrenNotRecording(m, parent, elements) ==
  LET alternate == m.fibers[parent].alternate
      oldFiber == IF alternate # Null THEN m.fibers[alternate].child ELSE Null
  IN [reconcileLoop(m, parent, elements, 0, oldFiber, Null)
        EXCEPT !.deletions = m.deletions]

reconcileChildren(m, parent, elements) ==
  LET alternate == m.fibers[parent].alternate
      oldFiber == IF alternate # Null THEN m.fibers[alternate].child ELSE Null
  IN reconcileLoop(m, parent, elements, 0, oldFiber, Null)

-----------------------------------------------------------------------------
(* Hooks and components *)

\* Faulty variant: the queue is replayed last action first.
RECURSIVE ReplayReversed(_, _)
ReplayReversed(actions, state) ==
  IF actions = <<>> THEN state
  ELSE ApplyAction(Head(actions), ReplayReversed(Tail(actions), state))

\* actions.forEach(action => { hook.state = action(hook.state) })
RECURSIVE Replay(_, _)
Replay(actions, state) ==
  IF actions = <<>> THEN state
  ELSE Replay(Tail(actions), ApplyAction(Head(actions), state))

\* The hook useState pushes; hookIndex counts from 0 as in the source.
NewHook(m, initial) ==
  LET alternate == m.fibers[m.wipFiber].alternate
      hasOld == alternate # Null /\ m.hookIndex < Len(m.fibers[alternate].hooks)
      oldHook == m.fibers[alternate].hooks[m.hookIndex + 1]
  IN [state |-> IF hasOld THEN Replay(oldHook.queue, oldHook.state) ELSE initial,
      queue |-> <<>>]

\* Returns the machine, the state and the update capability (the hook it closes over).
useState(m, initial) ==
  LET hook == NewHook(m, initial)
  IN [m |-> [m EXCEPT !.fibers[m.wipFiber].hooks = Append(@, hook),
                      !.hookIndex = @ + 1],
      state |-> hook.state,
      setState |-> [fiber |-> m.wipFiber, index |-> m.hookIndex + 1]]

\* What Counter returns, r being what its useState call returned.
CounterElement(r) ==
  [m |-> r.m,
   element |-> createElement("h1",
                 [onClick |-> [setState |-> r.setState, action |-> "inc"]],
                 << [prim |-> "Count: "], [prim |-> r.state] >>)]

\* function Counter(): an h1 whose click handler calls setState(c => c + 1).
Counter(m, props) == CounterElement(useState(m, 1))

\* fiber.type(fiber.props)
CallComponent(m, type, props) ==
  CASE type = "Counter" -> Counter(m, props)

\* r is what the component call returned: the machine and the element.
reconcileReturned(r, fiber) == reconcileChildren(r.m, fiber, <<r.element>>)

updateFunctionComponent(m, fiber) ==
  reconcileReturned(
    CallComponent([m EXCEPT !.wipFiber = fiber, !.hookIndex = 0,
                            !.fibers[fiber].hooks = <<>>],
                  m.fibers[fiber].type, m.fibers[fiber].props),
    fiber)

\* fiber.dom = createDom(fiber)
assignDom(m, fiber) == [m EXCEPT !.fibers[fiber].dom = Len(m.doms)]

\* The while loop of commitWork: the nearest unit, from fiber upwards, with a host node.
RECURSIVE DomParentFiber(_, _)
DomParentFiber(fs, fiber) ==
  IF fs[fiber].dom # Null THEN fiber ELSE DomParentFiber(fs, fs[fiber].parent)

\* Faulty variant: the new host node is appended to its parent as soon as it is created.
attachDom(m, fiber) ==
  appendChild(m, m.fibers[DomParentFiber(m.fibers, m.fibers[fiber].parent)].dom,
              m.fibers[fiber].dom)

updateHostComponentAttaching(m, fiber) ==
  reconcileChildren(
    IF m.fibers[fiber].dom = Null
    THEN attachDom(assignDom(createDom(m, fiber), fiber), fiber)
    ELSE m,
    fiber, m.fibers[fiber].props.children)

\* Faulty variant: a host node is created also for a unit that has one.
updateHostComponentRecreating(m, fiber) ==
  reconcileChildren(assignDom(createDom(m, fiber), fiber),
                    fiber, m.fibers[fiber].props.children)

updateHostComponent(m, fiber) ==
  reconcileChildren(
    IF m.fibers[fiber].dom = Null THEN assignDom(createDom(m, fiber), fiber) ELSE m,
    fiber, m.fibers[fiber].props.children)

\* hook.queue.push(action), hook being the one the capability closes over.
pushAction(m, cap, action) ==
  [m EXCEPT !.fibers[cap.fiber].hooks[cap.index].queue = Append(@, action)]

\* Faulty variant: the pending deletions are not reset.
scheduleRootKeepingDeletions(m) ==
  IF m.currentRoot = Null THEN [m EXCEPT !.threw = TRUE]
  ELSE LET root == RootFiber(m.fibers[m.currentRoot].dom,
                             m.fibers[m.currentRoot].props, m.currentRoot)
           new == Len(m.fibers) + 1
       IN [m EXCEPT !.fibers = Append(@, root), !.wipRoot = new,
                    !.nextUnitOfWork = new]

\* Faulty variant: the walk is not sent back to the new root.
scheduleRootNotRestarting(m) ==
  IF m.currentRoot = Null THEN [m EXCEPT !.threw = TRUE]
  ELSE LET root == RootFiber(m.fibers[m.currentRoot].dom,
                             m.fibers[m.currentRoot].props, m.currentRoot)
           new == Len(m.fibers) + 1
       IN [m EXCEPT !.fibers = Append(@, root), !.wipRoot = new, !.deletions = <<>>]

\* The rest of setState: with no committed root, currentRoot.dom is a TypeError.
scheduleRoot(m) ==
  IF m.currentRoot = Null THEN [m EXCEPT !.threw = TRUE]
  ELSE LET root == RootFiber(m.fibers[m.currentRoot].dom,
                             m.fibers[m.currentRoot].props, m.currentRoot)
           new == Len(m.fibers) + 1
       IN [m EXCEPT !.fibers = Append(@, root), !.wipRoot = new,
                    !.nextUnitOfWork = new, !.deletions = <<>>]

\* The update capability of hook cap, called with an update function.
setState(m, cap, action) == scheduleRoot(pushAction(m, cap, action))

\* Faulty variant: the new root does not point at the committed one.
renderWithoutAlternate(m, element, dom) ==
  LET root == RootFiber(dom, [children |-> <<element>>], Null)
      new == Len(m.fibers) + 1
  IN [m EXCEPT !.fibers = Append(@, root), !.wipRoot = new,
               !.deletions = <<>>, !.nextUnitOfWork = new]

render(m, element, dom) ==
  LET root == RootFiber(dom, [children |-> <<element>>], m.currentRoot)
      new == Len(m.fibers) + 1
  IN [m EXCEPT !.fibers = Append(@, root), !.wipRoot = new,
               !.deletions = <<>>, !.nextUnitOfWork = new]

-----------------------------------------------------------------------------
(* The walk *)

isFunctionComponent(type) == type \in Components

\* Faulty variant: the search does not climb to the ancestors.
NextFiberNoClimb(fs, nextFiber) == fs[nextFiber].sibling

\* The while loop of performUnitOfWork: the sibling of the nearest ancestor-or-self.
RECURSIVE NextFiber(_, _)
NextFiber(fs, nextFiber) ==
  IF nextFiber = Null THEN Null
  ELSE IF fs[nextFiber].sibling # Null THEN fs[nextFiber].sibling
  ELSE NextFiber(fs, fs[nextFiber].parent)

\* The unit performUnitOfWork returns, m being the machine after the update.
nextUnit(m, fiber) ==
  [m EXCEPT !.nextUnitOfWork =
     IF m.fibers[fiber].child # Null THEN m.fibers[fiber].child
     ELSE NextFiber(m.fibers, fiber)]

\* Returns the machine with nextUnitOfWork set to the value the function returns.
performUnitOfWork(m, fiber) ==
  nextUnit(IF isFunctionComponent(m.fibers[fiber].type)
           THEN updateFunctionComponent(m, fiber)
           ELSE updateHostComponent(m, fiber),
           fiber)

-----------------------------------------------------------------------------
(* Commit *)

\* fiber.dom of an absent fiber is a TypeError.
RECURSIVE commitDeletion(_, _, _)
commitDeletion(m, fiber, domParent) ==
  IF fiber = Null THEN [m EXCEPT !.threw = TRUE]
  ELSE IF m.fibers[fiber].dom # Null
  THEN removeChild(m, domParent, m.fibers[fiber].dom)
  ELSE commitDeletion(m, m.fibers[fiber].child, domParent)

RECURSIVE commitWork(_, _)
commitWork(m, fiber) ==
  IF m.threw \/ fiber = Null THEN m
  ELSE
    LET f == m.fibers[fiber]
        domParent == m.fibers[DomParentFiber(m.fibers, f.parent)].dom
        m1 == IF f.effectTag = "PLACEMENT" /\ f.dom # Null
              THEN appendChild(m, domParent, f.dom)
              ELSE IF f.effectTag = "UPDATE" /\ f.dom # Null
              THEN updateDom(m, f.dom, m.fibers[f.alternate].props, f.props)
              ELSE IF f.effectTag = "DELETION"
              THEN commitDeletion(m, fiber, domParent)
              ELSE m
    IN commitWork(commitWork(m1, f.child), f.sibling)

\* deletions.forEach(commitWork)
RECURSIVE commitEach(_, _)
commitEach(m, list) ==
  IF list = <<>> THEN m ELSE commitEach(commitWork(m, Head(list)), Tail(list))

\* The two assignments that end commitRoot, not reached when a commit threw.
promote(m) ==
  IF m.threw THEN m ELSE [m EXCEPT !.currentRoot = m.wipRoot, !.wipRoot = Null]

commitRoot(m) ==
  promote(commitWork(commitEach(m, m.deletions), m.fibers[m.wipRoot].child))

-----------------------------------------------------------------------------
(* The scheduler *)

\* A deadline is the sequence of estimates its timeRemaining() returns, call
\* after call: `budget` estimates at the threshold, then none left.
Deadline(budget) == [i \in 1..(budget + 1) |-> IF i <= budget THEN YieldThreshold ELSE 0]

Deadlines == {Deadline(b) : b \in {0, 1, MaxBudget}}

\* A slice long enough for any walk of the model.
WholeSlice == Deadline(MaxBudget)

timeRemaining(deadline, call) ==
  IF call <= Len(deadline) THEN deadline[call] ELSE 0

\* The while loop of workLoop; w is the machine and the units processed so far.
RECURSIVE walkLoop(_, _, _, _)
walkLoop(w, deadline, shouldYield, calls) ==
  IF ~(w.m.nextUnitOfWork # Null /\ ~shouldYield) THEN w
  ELSE walkLoop([m |-> performUnitOfWork(w.m, w.m.nextUnitOfWork),
                 visited |-> Append(w.visited, w.m.nextUnitOfWork)],
                deadline,
                timeRemaining(deadline, calls + 1) < YieldThreshold,
                calls + 1)

\* Faulty variant: the commit does not wait for the walk to end.
commitsEarly(m) == m.wipRoot # Null

\* !nextUnitOfWork && wipRoot
commits(m) == m.nextUnitOfWork = Null /\ m.wipRoot # Null

\* The statement after the loop: if (!nextUnitOfWork && wipRoot) commitRoot().
afterLoop(w) ==
  [walked |-> w.m, visited |-> w.visited,
   m |-> IF commits(w.m) THEN commitRoot(w.m) ELSE w.m]

\* Faulty variant: the estimate is consulted before the first unit as well.
workLoopCheckingFirst(m, seen, deadline) ==
  afterLoop(walkLoop([m |-> m, visited |-> seen], deadline,
                     timeRemaining(deadline, 1) < YieldThreshold, 0))

\* The machine after the loop, and after the whole callback.
workLoop(m, seen, deadline) ==
  afterLoop(walkLoop([m |-> m, visited |-> seen], deadline, FALSE, 0))

-----------------------------------------------------------------------------
(* The state machine *)

Machine ==
  [fibers |-> fibers, doms |-> doms, nextUnitOfWork |-> nextUnitOfWork,
   currentRoot |-> currentRoot, wipRoot |-> wipRoot, deletions |-> deletions,
   wipFiber |-> wipFiber, hookIndex |-> hookIndex, threw |-> FALSE]

\* Module initialisation, before the first render call.
InitMachine ==
  [fibers |-> <<>>, doms |-> <<NewNode("root")>>, nextUnitOfWork |-> Null,
   currentRoot |-> Null, wipRoot |-> Null, deletions |-> <<>>,
   wipFiber |-> Null, hookIndex |-> Null, threw |-> FALSE]

Init ==
  /\ fibers = InitMachine.fibers
  /\ doms = InitMachine.doms
  /\ nextUnitOfWork = Null
  /\ currentRoot = Null
  /\ wipRoot = Null
  /\ deletions = <<>>
  /\ wipFiber = Null
  /\ hookIndex = Null
  /\ scheduled = TRUE
  /\ lastOp = "init"
  /\ history = <<>>
  /\ visited = <<>>
  /\ afterWalk = InitMachine
  /\ clean = [m |-> InitMachine, base |-> 0]
  /\ expected = InitMachine
  /\ sliceUnits = 0

Store(m) ==
  /\ fibers' = m.fibers
  /\ doms' = m.doms
  /\ nextUnitOfWork' = m.nextUnitOfWork
  /\ currentRoot' = m.currentRoot
  /\ wipRoot' = m.wipRoot
  /\ deletions' = m.deletions
  /\ wipFiber' = m.wipFiber
  /\ hookIndex' = m.hookIndex

Event(op, el, cap, action) == [op |-> op, el |-> el, cap |-> cap, action |-> action]

NoCap == [fiber |-> Null, index |-> 0]

IsRequest(e) == e.op \in {"render", "setState"}

Requests == SelectSeq(history, IsRequest)

\* Every update capability useState has returned so far.
Capabilities ==
  UNION {{[fiber |-> f, index |-> i] : i \in 1..Len(fibers[f].hooks)} :
           f \in 1..Len(fibers)}

\* render(element, container)
Render(el) ==
  /\ Len(Requests) < MaxGen
  /\ Store(render(Machine, Element(el), container))
  /\ clean' = [clean EXCEPT !.m = render(@, Element(el), container)]
  /\ history' = Append(history, Event("render", el, NoCap, "none"))
  /\ visited' = <<>>
  /\ lastOp' = "render"
  /\ UNCHANGED <<scheduled, afterWalk, expected, sliceUnits>>

\* An update capability is called: cap is the hook it closes over.
SetState(cap, action) ==
  /\ Len(Requests) < MaxGen
  /\ Store(setState(Machine, cap, action))
  /\ clean' = [clean EXCEPT !.m =
                 [(IF cap.fiber <= clean.base THEN setState(@, cap, action)
                   ELSE scheduleRoot(@))
                  EXCEPT !.threw = FALSE]]
  /\ history' = Append(history, Event("setState", "none", cap, action))
  /\ visited' = IF currentRoot = Null THEN visited ELSE <<>>
  /\ lastOp' = "setState"
  /\ UNCHANGED <<scheduled, afterWalk, expected, sliceUnits>>

\* The idle callback: workLoop(deadline), which requests itself again at its end.
Ran(r) ==
  /\ Store(r.m)
  /\ scheduled' = ~r.m.threw
  /\ visited' = r.visited
  /\ sliceUnits' = Len(r.visited) - Len(visited)
  /\ afterWalk' = r.walked
  /\ lastOp' = IF ~commits(r.walked) THEN "walk"
               ELSE IF r.m.threw THEN "commitThrow" ELSE "commit"
  /\ history' = IF commits(r.walked)
                THEN Append(history, Event(lastOp', "none", NoCap, "none"))
                ELSE history
  /\ expected' = IF commits(r.walked)
                 THEN workLoop(clean.m, <<>>, WholeSlice).m
                 ELSE expected
  /\ clean' = IF commits(r.walked) /\ ~r.m.threw
              THEN [m |-> r.m, base |-> Len(r.m.fibers)]
              ELSE clean

WorkLoop(deadline) ==
  /\ scheduled
  /\ nextUnitOfWork # Null \/ wipRoot # Null
  /\ Ran(workLoop(Machine, visited, deadline))

Next ==
  \/ \E el \in ElementNames : Render(el)
  \/ \E cap \in Capabilities, action \in Actions : SetState(cap, action)
  \/ \E deadline \in Deadlines : WorkLoop(deadline)

Spec == Init /\ [][Next]_vars

\* The steps of WorkLoop, told by their guard and the kind of step they leave:
\* requestIdleCallback(workLoop) was called and the callback runs.
IdleCallback ==
  /\ scheduled
  /\ nextUnitOfWork # Null \/ wipRoot # Null
  /\ lastOp' \in {"walk", "commit", "commitThrow"}

\* The host keeps granting the idle callbacks that were requested: a callback
\* that stays due runs, and the walk being finite, one of the callbacks that
\* run ends it (the kind of the last step changes then at the latest).
FairSpec == Spec /\ WF_lastOp(IdleCallback)

\* The same program called with the element descriptions of TreeNames.
NextTrees ==
  \/ \E el \in TreeNames : Len(Requests) < MaxTreeGen /\ Render(el)
  \/ \E cap \in Capabilities, action \in Actions :
       Len(Requests) < MaxTreeGen /\ SetState(cap, action)
  \/ \E deadline \in Deadlines : WorkLoop(deadline)

SpecTrees == Init /\ [][NextTrees]_vars

\* updateDom on its own: one host unit whose node createDom has built from
\* some props, then diffed against other props as commitWork does for UPDATE.
DiffChoices ==
  [id : {"none", "a", "b"}, title : {"none", "t"},
   onClick : {"none", "h1", "h2"}, onInput : {"none", "h1"}]

PropsOf(c) ==
  [k \in {"children"} \cup {x \in DOMAIN c : c[x] # "none"} |->
     IF k = "children" THEN <<>> ELSE c[k]]

DiffProps == {PropsOf(c) : c \in DiffChoices}

\* The machine after createDom for a new div unit with the given props.
Created(props) ==
  assignDom(createDom([InitMachine EXCEPT
                         !.fibers = <<Fiber("div", props, Null, Null, Null, "PLACEMENT")>>],
                      1),
            1)

InitDiff ==
  /\ \E props \in DiffProps : /\ fibers = Created(props).fibers
                              /\ doms = Created(props).doms
  /\ nextUnitOfWork = Null
  /\ currentRoot = Null
  /\ wipRoot = Null
  /\ deletions = <<>>
  /\ wipFiber = Null
  /\ hookIndex = Null
  /\ scheduled = FALSE
  /\ lastOp = "createDom"
  /\ history = <<>>
  /\ visited = <<>>
  /\ afterWalk = InitMachine
  /\ clean = [m |-> InitMachine, base |-> 0]
  /\ expected = InitMachine
  /\ sliceUnits = 0

\* updateDom(fiber.dom, fiber.alternate.props, fiber.props), the unit taking
\* the next props.
UpdateDom(next) ==
  /\ Len(history) < MaxDiffs
  /\ doms' = updateDom(Machine, fibers[1].dom, fibers[1].props, next).doms
  /\ fibers' = [fibers EXCEPT ![1].props = next]
  /\ history' = Append(history, [op |-> "updateDom", prev |-> fibers[1].props,
                                  before |-> Len(doms[fibers[1].dom].calls)])
  /\ lastOp' = "updateDom"
  /\ UNCHANGED <<nextUnitOfWork, currentRoot, wipRoot, deletions, wipFiber, hookIndex,
                 scheduled, visited, afterWalk, clean, expected, sliceUnits>>

NextDiff == \E next \in DiffProps : UpdateDom(next)

SpecDiff == InitDiff /\ [][NextDiff]_vars

-----------------------------------------------------------------------------
(* Observations used by the properties *)

\* The host nodes attached under the container, the container included.
RECURSIVE Under(_, _)
Under(d, n) ==
  {n} \cup UNION {Under(d, d[n].children[i]) : i \in 1..Len(d[n].children)}

\* The attached host tree: every attached node with all it holds.
HostTree(d) == [n \in Under(d, container) |-> d[n]]

\* The attached host tree without its listeners.
HostStructure(d) ==
  [n \in Under(d, container) |->
     [tag |-> d[n].tag, attrs |-> d[n].attrs, children |-> d[n].children]]

\* The attached host tree as a reader of the document sees it, node identities
\* and handler identities left out.
RECURSIVE Shape(_, _)
Shape(d, n) ==
  [tag |-> d[n].tag, attrs |-> d[n].attrs,
   events |-> {l[1] : l \in d[n].listeners},
   children |-> [i \in 1..Len(d[n].children) |-> Shape(d, d[n].children[i])]]

\* The units from f on, in depth-first pre-order: f, its subtree, its siblings.
RECURSIVE Pre(_, _)
Pre(fs, f) ==
  IF f = Null THEN <<>>
  ELSE <<f>> \o Pre(fs, fs[f].child) \o Pre(fs, fs[f].sibling)

Range(seq) == {seq[i] : i \in 1..Len(seq)}

\* The units of the generation rooted at root.
Units(fs, root) == IF root = Null THEN {} ELSE Range(Pre(fs, root))

\* The host nodes of the nearest host-bearing units of the chain starting at f.
RECURSIVE HostNodes(_, _)
HostNodes(fs, f) ==
  IF f = Null THEN <<>>
  ELSE (IF fs[f].dom # Null THEN <<fs[f].dom>> ELSE HostNodes(fs, fs[f].child))
       \o HostNodes(fs, fs[f].sibling)

\* The host nodes a deleted unit stands for: its own, or those of its nearest
\* host-bearing descendants.
DeletedNodes(fs, f) ==
  IF fs[f].dom # Null THEN {fs[f].dom} ELSE Range(HostNodes(fs, fs[f].child))

Committed == lastOp = "commit"

\* The positions of the commits in the history.
CommitsAt == {i \in 1..Len(history) : history[i].op = "commit"}

LastCommitAt == IF CommitsAt = {} THEN 0 ELSE CHOOSE i \in CommitsAt : \A j \in CommitsAt : j <= i

\* The requests made after position from and before position to.
RequestsBetween(from, to) ==
  SelectSeq(SubSeq(history, from + 1, to - 1), IsRequest)

\* In a state just after a commit: the requests since the commit before it.
PrevCommitAt ==
  LET before == {i \in CommitsAt : i < LastCommitAt}
  IN IF before = {} THEN 0 ELSE CHOOSE i \in before : \A j \in before : j <= i

RequestsOfLastCommit == RequestsBetween(PrevCommitAt, LastCommitAt)

RequestsSinceCommit == RequestsBetween(LastCommitAt, Len(history) + 1)

\* The commit before PrevCommitAt.
CommitBefore(at) ==
  LET before == {i \in CommitsAt : i < at}
  IN IF before = {} THEN 0 ELSE CHOOSE i \in before : \A j \in before : j <= i

\* The element of the render call that ends reqs, "none" when there is none.
ElementOf(reqs) ==
  IF reqs # <<>> /\ reqs[Len(reqs)].op = "render" THEN reqs[Len(reqs)].el ELSE "none"

OnlyRenders(reqs) == \A k \in 1..Len(reqs) : reqs[k].op = "render"

\* The update functions the events hand to the capability of hook i of unit f.
ActionsOn(events, f, i) ==
  LET hits == SelectSeq(events, LAMBDA e : e.op = "setState"
                                             /\ e.cap = [fiber |-> f, index |-> i])
  IN [k \in 1..Len(hits) |-> hits[k].action]

\* The children of unit f, in order.
Children(fs, f) ==
  LET chain[c \in 0..Len(fs)] ==
        IF c = Null THEN <<>> ELSE <<c>> \o chain[fs[c].sibling]
  IN chain[fs[f].child]

-----------------------------------------------------------------------------
(* C1 *)

\* C1: the attached host tree is changed by the commit step only: a render
\* call and an update-capability invocation leave it as it is, and so does the
\* walk part of every workLoop callback (the units it processes, with the host
\* nodes it creates for new units), up to the point where commitRoot is called.
C1_HostChangedOnlyByCommit ==
  [][/\ lastOp' \in {"render", "setState"} => HostTree(doms') = HostTree(doms)
     /\ lastOp' \in {"walk", "commit", "commitThrow"}
          => HostTree(afterWalk'.doms) = HostTree(doms)]_vars

\* A walk over a committed tree has created host nodes and has not committed.
C1_Witness ==
  /\ lastOp = "walk"
  /\ currentRoot # Null
  /\ Len(doms) > Len(clean.m.doms)
  /\ HostTree(doms) = HostTree(clean.m.doms)

-----------------------------------------------------------------------------
(* C2 *)

\* The host children of every host-bearing unit of the committed generation are
\* the host nodes of its child chain, component units skipped, in order.
Mirrors ==
  \A f \in Units(fibers, currentRoot) :
    fibers[f].dom # Null =>
      doms[fibers[f].dom].children = HostNodes(fibers, fibers[f].child)

\* C2: after every commit the host tree under the container mirrors the
\* committed generation exactly.
C2_HostMirrorsCommitted == Committed => Mirrors

-----------------------------------------------------------------------------
(* C3 *)

\* The host ancestor a deleted unit's host nodes were attached under.
FormerParent(f) == fibers[DomParentFiber(fibers, fibers[f].parent)].dom

\* C3: after a commit no host node of a unit in that commit's pending
\* deletions is attached under its former host ancestor.
C3_DeletedNodesDetached ==
  Committed =>
    \A i \in 1..Len(deletions) :
      \A n \in DeletedNodes(fibers, deletions[i]) :
        doms[n].parent # FormerParent(deletions[i])

-----------------------------------------------------------------------------
(* C4 *)

\* The events between the last two commits.
EventsOfLastCommit == SubSeq(history, PrevCommitAt + 1, LastCommitAt - 1)

\* Every invocation of the capability of hook i of unit f lies between the
\* last two commits.
InvokedBetweenCommitsOnly(f, i) ==
  ActionsOn(history, f, i) = ActionsOn(EventsOfLastCommit, f, i)

\* The value after the first n of the update functions were applied, one after
\* the other in the order of invocation, to state.
RECURSIVE AppliedInOrder(_, _, _)
AppliedInOrder(actions, n, state) ==
  IF n = 0 THEN state
  ELSE ApplyAction(actions[n], AppliedInOrder(actions, n - 1, state))

-----------------------------------------------------------------------------
(* C5 *)

\* In a state just after commitRoot was called: the requests since the commit before.
RequestsOfAttempt ==
  IF lastOp = "commit" THEN RequestsOfLastCommit ELSE RequestsSinceCommit

\* C5: when one request only was made since the previous commit, the host
\* tree the commit leaves is the one a walk in a single slice gives, however
\* the walk was split into slices; the commit throws in the one case exactly
\* when it throws in the other.
C5_SlicesDoNotShow ==
  (lastOp \in {"commit", "commitThrow"} /\ Len(RequestsOfAttempt) = 1)
    => /\ Shape(doms, container) = Shape(expected.doms, container)
       /\ expected.threw <=> lastOp = "commitThrow"

\* An update of a committed tree, walked in several slices, has committed.
C5_Witness ==
  /\ Committed
  /\ PrevCommitAt > 0
  /\ Len(RequestsOfLastCommit) = 1
  /\ sliceUnits < Len(visited)
  /\ Shape(doms, container) # Shape(afterWalk.doms, container)

-----------------------------------------------------------------------------
(* C6 *)

\* C6: when walks were discarded since the previous commit, the host tree the
\* commit leaves is the one it would leave had no unit of them been processed.
C6_DiscardedWalkLeavesNoTrace ==
  (Committed /\ Len(RequestsOfLastCommit) > 1)
    => Shape(doms, container) = Shape(expected.doms, container)

-----------------------------------------------------------------------------
(* C7 *)

\* The last two commits are of render calls with the same element, and no
\* update capability was invoked since the commit before them.
SameRenderTwice ==
  /\ Committed
  /\ PrevCommitAt > 0
  /\ OnlyRenders(RequestsOfLastCommit)
  /\ OnlyRenders(RequestsBetween(CommitBefore(PrevCommitAt), PrevCommitAt))
  /\ ElementOf(RequestsOfLastCommit)
       = ElementOf(RequestsBetween(CommitBefore(PrevCommitAt), PrevCommitAt))

\* C7: the second generation of two renders of the same element has every
\* unit but the root tagged UPDATE and no pending deletion, and its commit
\* changes no attribute and no child list of an attached host node.
C7_SecondRenderUpdatesOnly ==
  SameRenderTwice =>
    /\ \A f \in Units(fibers, currentRoot) \ {currentRoot} :
         fibers[f].effectTag = "UPDATE"
    /\ deletions = <<>>
    /\ HostStructure(doms) = HostStructure(afterWalk.doms)

\* The element with the component was rendered twice.
C7_Witness ==
  /\ SameRenderTwice
  /\ ElementOf(RequestsOfLastCommit) = "xb"
  /\ Len(RequestsOfLastCommit) = 1

-----------------------------------------------------------------------------
(* C8 *)

\* The committed generation shows one of the two orders of span and p, the
\* generation being walked the other, and the walk has reconciled the div.
Swapped ==
  /\ wipRoot # Null
  /\ LastCommitAt > 0
  /\ {ElementOf(RequestsOfLastCommit), ElementOf(RequestsSinceCommit)} = {"ab", "ba"}
  /\ Len(visited) >= 2

TaggedChildren(tag) ==
  {c \in Range(Children(fibers, fibers[wipRoot].child)) : fibers[c].effectTag = tag}

\* C8 as amended: each of the two positions gives a DELETION of the old unit
\* and a PLACEMENT of a new one, two of each, and no UPDATE.
C8_SwapDeletesAndPlacesBoth ==
  Swapped =>
    /\ Len(deletions) = 2
    /\ Range(deletions) = Range(Children(fibers, fibers[currentRoot].child))
    /\ \A i \in 1..2 : fibers[deletions[i]].effectTag = "DELETION"
    /\ Cardinality(TaggedChildren("PLACEMENT")) = 2
    /\ TaggedChildren("UPDATE") = {}

\* C8 as stated: one DELETION and one PLACEMENT, and no UPDATE.
C8_SwapDeletesAndPlacesOne ==
  Swapped =>
    /\ Len(deletions) = 1
    /\ Cardinality(TaggedChildren("PLACEMENT")) = 1
    /\ TaggedChildren("UPDATE") = {}

C8_Witness == Swapped /\ lastOp = "walk"

-----------------------------------------------------------------------------
(* C9 *)

\* C9: an update-capability invocation made while a committed root exists
\* appends the update function to the queue of its hook and to no other, adds a
\* fresh root with the dom and props of currentRoot and currentRoot as its
\* alternate, makes it wipRoot and nextUnitOfWork, empties the pending
\* deletions, and leaves currentRoot, every other unit and the document alone.
C9_SetStateFrame ==
  [][(lastOp' = "setState" /\ currentRoot # Null) =>
       LET e == history'[Len(history')]
           pushed == [fibers EXCEPT ![e.cap.fiber].hooks[e.cap.index].queue =
                                       Append(@, e.action)]
       IN /\ wipRoot' = Len(fibers) + 1
          /\ wipRoot' # wipRoot
          /\ fibers' = Append(pushed, fibers'[wipRoot'])
          /\ fibers'[wipRoot'].dom = fibers[currentRoot].dom
          /\ fibers'[wipRoot'].props = fibers[currentRoot].props
          /\ fibers'[wipRoot'].alternate = currentRoot
          /\ fibers'[wipRoot'].child = Null
          /\ nextUnitOfWork' = wipRoot'
          /\ deletions' = <<>>
          /\ currentRoot' = currentRoot
          /\ doms' = doms]_vars

\* Two invocations in a row, the first of which found pending deletions.
C9_Witness ==
  /\ lastOp = "setState"
  /\ currentRoot # Null
  /\ Len(history) >= 2
  /\ history[Len(history) - 1].op = "setState"
  /\ wipRoot = Len(fibers)
  /\ fibers[wipRoot - 1].alternate = currentRoot
  /\ fibers[wipRoot - 1].type = Undefined

-----------------------------------------------------------------------------
(* C10 *)

\* C10: the units a walk has processed are, in order and each once, the first
\* units of the generation in depth-first pre-order, nextUnitOfWork being the
\* one that follows them; commitRoot is called only when nextUnitOfWork is
\* absent and wipRoot exists, every unit of the generation having been processed.
C10_WalkCompletesBeforeCommit ==
  /\ wipRoot # Null =>
       LET order == Pre(fibers, wipRoot)
       IN /\ Len(visited) <= Len(order)
          /\ visited = SubSeq(order, 1, Len(visited))
          /\ nextUnitOfWork = IF Len(visited) < Len(order)
                              THEN order[Len(visited) + 1] ELSE Null
  /\ lastOp \in {"commit", "commitThrow"} =>
       /\ afterWalk.nextUnitOfWork = Null
       /\ afterWalk.wipRoot # Null
       /\ visited = Pre(afterWalk.fibers, afterWalk.wipRoot)

\* A walk of the largest tree, suspended at least once, has committed.
C10_Witness ==
  /\ Committed
  /\ Len(visited) > Len(Element("ab").props.children) + 2
  /\ sliceUnits < Len(visited)
  /\ sliceUnits > 0

-----------------------------------------------------------------------------
(* C11 *)

\* The number of estimates at or above the threshold a deadline gives before
\* the first one below it.
Budget(deadline) ==
  Cardinality({i \in 1..Len(deadline) :
                 \A j \in 1..i : deadline[j] >= YieldThreshold})

\* C11 as amended: the estimate is consulted after each processed unit and
\* never before the first one.  A slice that finds a next unit processes it,
\* then goes on while the estimates are at or above the threshold and a next
\* unit exists: it processes at most one unit more than the estimates at or
\* above the threshold, fewer only when no next unit remains, and nextUnit is
\* left at the first unprocessed unit.  A slice that finds no next unit
\* processes none.
C11_SliceProcessesUnitThenChecks ==
  [][\A d \in Deadlines : WorkLoop(d) =>
       IF nextUnitOfWork = Null
       THEN sliceUnits' = 0
       ELSE /\ sliceUnits' >= 1
            /\ sliceUnits' <= Budget(d) + 1
            /\ sliceUnits' < Budget(d) + 1 => afterWalk'.nextUnitOfWork = Null
            /\ visited' = visited \o SubSeq(Pre(afterWalk'.fibers, afterWalk'.wipRoot),
                                            Len(visited) + 1, Len(visited) + sliceUnits')
            /\ visited'[Len(visited) + 1] = nextUnitOfWork
            /\ afterWalk'.nextUnitOfWork # Null =>
                 afterWalk'.nextUnitOfWork
                   = Pre(afterWalk'.fibers, afterWalk'.wipRoot)[Len(visited') + 1]]_vars

\* C11 as stated: a slice whose estimate is below the threshold from its start
\* processes no unit and leaves nextUnit where it was.
C11_NoUnitWhenBelowThreshold ==
  [][WorkLoop(Deadline(0)) =>
       (sliceUnits' = 0 /\ nextUnitOfWork' = nextUnitOfWork)]_vars

\* A slice whose first estimate was below the threshold has processed one
\* unit of a walk that has more.
C11_Witness ==
  /\ lastOp = "walk"
  /\ sliceUnits = 1
  /\ Len(visited) > 1
  /\ nextUnitOfWork # Null

-----------------------------------------------------------------------------
(* C12 *)

\* C12: in the state a commit leaves, currentRoot is the root that was wipRoot
\* when commitRoot was called, wipRoot is absent and the pending deletions are
\* empty.
C12_AfterCommit ==
  Committed =>
    /\ currentRoot = afterWalk.wipRoot
    /\ wipRoot = Null
    /\ deletions = <<>>

-----------------------------------------------------------------------------
(* C13 *)

\* C13: a unit has its effectTag from the reconciliation of its parent, which
\* creates it, and no step assigns the effectTag of an existing unit again.
C13_EffectTagAssignedOnce ==
  [][\A f \in 1..Len(fibers) :
       fibers[f].type # Undefined => fibers'[f].effectTag = fibers[f].effectTag]_vars

-----------------------------------------------------------------------------
(* C14 *)

\* The element descriptions reconcileChildren was called with when unit f of
\* the walk that left machine m was processed.
ElementsGiven(m, f) ==
  IF isFunctionComponent(m.fibers[f].type)
  THEN << CallComponent([m EXCEPT !.wipFiber = f, !.hookIndex = 0,
                                  !.fibers[f].hooks = <<>>],
                        m.fibers[f].type, m.fibers[f].props).element >>
  ELSE m.fibers[f].props.children

OldChildren(fs, f) ==
  IF fs[f].alternate = Null THEN <<>> ELSE Children(fs, fs[f].alternate)

Occurrences(seq, x) == Cardinality({i \in 1..Len(seq) : seq[i] = x})

\* Old child j of processed unit f has no element of its type at its position.
Unmatched(m, f, j) ==
  \/ j > Len(ElementsGiven(m, f))
  \/ ElementsGiven(m, f)[j].type # m.fibers[OldChildren(m.fibers, f)[j]].type

\* What one reconcileChildren call on unit f has left in machine m.
Reconciled(m, f) ==
  LET els == ElementsGiven(m, f)
      new == Children(m.fibers, f)
      old == OldChildren(m.fibers, f)
  IN /\ Len(new) = Len(els)
     /\ \A i \in 1..Len(new) :
          /\ m.fibers[new[i]].type = els[i].type
          /\ m.fibers[new[i]].props = els[i].props
          /\ m.fibers[new[i]].parent = f
          /\ new[i] > f
          /\ new[i] \notin Units(m.fibers, m.currentRoot)
          /\ \A j \in 1..Len(new) : new[j] = new[i] => j = i
     /\ \A j \in 1..Len(old) :
          Unmatched(m, f, j) => Occurrences(m.deletions, old[j]) = 1

\* C14: when a workLoop callback leaves its loop, every unit the walk has
\* processed has a child chain of exactly one fresh unit per element
\* description it was reconciled with, in their order; every old child with no
\* element of its type at its position is once in the pending deletions; and
\* no unit of the pending deletions is linked under the work-in-progress root.
C14_ReconcileResult ==
  lastOp \in {"walk", "commit", "commitThrow"} =>
    /\ \A k \in 1..Len(visited) : Reconciled(afterWalk, visited[k])
    /\ \A i \in 1..Len(afterWalk.deletions) :
         afterWalk.deletions[i] \notin Units(afterWalk.fibers, afterWalk.wipRoot)

\* A unit with more old children than elements has been reconciled: its chain
\* is shorter than the old one and the old child past its end is deleted.
C14_Witness ==
  /\ lastOp = "walk"
  /\ \E k \in 1..Len(visited) :
       /\ Len(ElementsGiven(afterWalk, visited[k])) >= 1
       /\ Len(OldChildren(fibers, visited[k])) > Len(Children(fibers, visited[k]))
       /\ \E j \in 1..Len(OldChildren(fibers, visited[k])) :
            /\ j > Len(Children(fibers, visited[k]))
            /\ Occurrences(deletions, OldChildren(fibers, visited[k])[j]) = 1

-----------------------------------------------------------------------------
(* C15 *)

IndexIn(seq, x) == CHOOSE i \in 1..Len(seq) : seq[i] = x

\* Unit f, which has an alternate, is tagged UPDATE and its alternate is the
\* unit of the committed generation at its position, of its type and with its
\* host node.
PairedWithCurrent(f) ==
  LET a == fibers[f].alternate
      p == fibers[f].parent
  IN /\ fibers[f].effectTag = "UPDATE"
     /\ a \in Units(fibers, currentRoot)
     /\ fibers[a].type = fibers[f].type
     /\ fibers[a].dom = fibers[f].dom
     /\ IF p = Null THEN fibers[a].parent = Null
        ELSE /\ fibers[p].alternate # Null
             /\ fibers[a].parent = fibers[p].alternate
             /\ IndexIn(Children(fibers, fibers[p].alternate), a)
                  = IndexIn(Children(fibers, p), f)

\* Unit f, tagged PLACEMENT, has no alternate, and no host node before the
\* walk has processed it.
PlacedAnew(f) ==
  /\ fibers[f].alternate = Null
  /\ f \notin Range(visited) => fibers[f].dom = Null

\* C15 as amended: every unit of the work-in-progress generation other than
\* its root that has an alternate is tagged UPDATE and paired with the unit of
\* the committed generation at the same position; every unit tagged PLACEMENT
\* has no alternate and no host node until it is processed.  (The root has an
\* alternate and no effectTag.)
C15_AlternatesBelowRoot ==
  wipRoot # Null =>
    \A f \in Units(fibers, wipRoot) \ {wipRoot} :
      /\ fibers[f].alternate # Null => PairedWithCurrent(f)
      /\ fibers[f].effectTag = "PLACEMENT" => PlacedAnew(f)

\* C15 as stated: the same of every unit of the work-in-progress generation.
C15_AlternatesEverywhere ==
  wipRoot # Null =>
    \A f \in Units(fibers, wipRoot) :
      /\ fibers[f].alternate # Null => PairedWithCurrent(f)
      /\ fibers[f].effectTag = "PLACEMENT" => PlacedAnew(f)

\* A walk over a committed tree has made a unit with an alternate, a processed
\* new unit with a host node and a new unit not processed yet.
C15_Witness ==
  /\ wipRoot # Null
  /\ currentRoot # Null
  /\ \E f, g, h \in Units(fibers, wipRoot) \ {wipRoot} :
       /\ fibers[f].alternate # Null
       /\ fibers[f].dom # Null
       /\ fibers[g].effectTag = "PLACEMENT" /\ g \in Range(visited) /\ fibers[g].dom # Null
       /\ fibers[h].effectTag = "PLACEMENT" /\ h \notin Range(visited)

-----------------------------------------------------------------------------
(* C16 *)

\* The handlers attached to node for the event of listener key k.
Attached(node, k) == {l[2] : l \in {x \in node.listeners : x[1] = eventType(k)}}

\* prev and next being the props of a diff, made the listener calls of it and
\* node the host node it leaves: the node reflects next.
Reflects(node, prev, next, made) ==
  /\ \A k \in DOMAIN next :
       isProperty(k) => k \in DOMAIN node.attrs /\ node.attrs[k] = ToString(next[k])
  /\ \A k \in DOMAIN prev \ DOMAIN next :
       isProperty(k) => node.attrs[k] = ""
  /\ \A k \in EventKeys :
       Attached(node, k) = IF k \in DOMAIN next THEN {next[k]} ELSE {}
  /\ \A k \in DOMAIN prev :
       (isEvent(k) /\ (k \notin DOMAIN next \/ next[k] # prev[k]))
         => <<"remove", eventType(k), prev[k]>> \in Range(made)
  /\ \A k \in DOMAIN prev \cap DOMAIN next :
       (isEvent(k) /\ next[k] = prev[k])
         => \A i \in 1..Len(made) : made[i][2] # eventType(k)
  /\ "children" \notin DOMAIN node.attrs

\* C16: after updateDom with the props a node reflects and next props, every
\* plain key of the next props has its value on the node, every plain key of
\* the previous props that is gone is the empty string, the handler attached
\* for the event of every listener key is the one of the next props and no
\* other, a changed or removed handler was detached, no call was made for an
\* unchanged one, and children is no attribute of the node.
C16_DiffLeavesNext ==
  lastOp = "updateDom" =>
    Reflects(doms[fibers[1].dom], history[Len(history)].prev, fibers[1].props,
             SubSeq(doms[fibers[1].dom].calls, history[Len(history)].before + 1,
                    Len(doms[fibers[1].dom].calls)))

\* A second diff has changed one handler, kept another, removed a plain key
\* and changed another.
C16_Witness ==
  /\ lastOp = "updateDom"
  /\ Len(history) = 2
  /\ history[2].prev = PropsOf([id |-> "a", title |-> "t", onClick |-> "h1", onInput |-> "h1"])
  /\ fibers[1].props = PropsOf([id |-> "b", title |-> "none", onClick |-> "h2", onInput |-> "h1"])
  /\ doms[fibers[1].dom].listeners = {<<"click", "h2">>, <<"input", "h1">>}

-----------------------------------------------------------------------------
(* C17 *)

\* C17: in every state, a next unit is the work-in-progress root or a unit
\* linked under it; the alternate of the work-in-progress root is currentRoot;
\* and the host node of the root of either generation is the container.
C17_RootsAndNextUnit ==
  /\ nextUnitOfWork # Null =>
       /\ wipRoot # Null
       /\ nextUnitOfWork \in Units(fibers, wipRoot)
  /\ wipRoot # Null =>
       /\ fibers[wipRoot].alternate = currentRoot
       /\ fibers[wipRoot].dom = container
  /\ currentRoot # Null => fibers[currentRoot].dom = container

\* The walk of a generation an update capability has scheduled over a
\* committed one is below its root.
C17_Witness ==
  /\ lastOp = "walk"
  /\ currentRoot # Null
  /\ RequestsSinceCommit # <<>>
  /\ RequestsSinceCommit[Len(RequestsSinceCommit)].op = "setState"
  /\ nextUnitOfWork \notin {Null, wipRoot}
  /\ fibers[wipRoot].alternate = currentRoot

-----------------------------------------------------------------------------
(* C18 *)

\* C18: when the idle callbacks keep being granted, a work-in-progress root
\* never stays for ever: the generation pending after the last render call
\* or update is committed, wipRoot becoming absent, whatever the estimates of
\* the slices are.
C18_PendingEventuallyCommitted ==
  (wipRoot # Null) ~> (wipRoot = Null /\ lastOp = "commit")

-----------------------------------------------------------------------------
(* C19 *)

\* The host node removed for deleted unit f: its own, or the one of its
\* nearest descendant by child links that has one.
RECURSIVE RemovedNode(_, _)
RemovedNode(fs, f) ==
  IF fs[f].dom # Null THEN fs[f].dom ELSE RemovedNode(fs, fs[f].child)

\* The document d after one removal per unit of dels and nothing else.
RECURSIVE Detached(_, _, _)
Detached(d, fs, dels) ==
  IF dels = <<>> THEN d
  ELSE LET n == RemovedNode(fs, Head(dels))
           p == d[n].parent
       IN Detached(IF p = Null THEN d
                   ELSE [d EXCEPT ![p].children = Remove(@, n), ![n].parent = Null],
                   fs, Tail(dels))

\* C19: the first statement of commitRoot, deletions.forEach(commitWork),
\* run on the machine the walk has left, throws nothing and leaves the
\* document with one host node removed per pending deletion and no other
\* difference.
C19_DeletionsRemoveOnly ==
  lastOp \in {"commit", "commitThrow"} =>
    /\ ~commitEach(afterWalk, afterWalk.deletions).threw
    /\ commitEach(afterWalk, afterWalk.deletions).doms
         = Detached(afterWalk.doms, afterWalk.fibers, afterWalk.deletions)

-----------------------------------------------------------------------------
(* C20 *)

\* The first incarnation of the component unit f stands for: the end of its
\* chain of alternates.  Units with the same origin are one component, mounted
\* at one position without interruption.
RECURSIVE Origin(_, _)
Origin(fs, f) == IF fs[f].alternate = Null THEN f ELSE Origin(fs, fs[f].alternate)

FirstCommitAt ==
  IF CommitsAt = {} THEN 0 ELSE CHOOSE i \in CommitsAt : \A j \in CommitsAt : i <= j

\* The update functions handed, since the first commit, to any capability
\* ever returned for hook i of the component of unit f, in invocation order.
UpdatesOf(f, i) ==
  LET later == SubSeq(history, FirstCommitAt + 1, Len(history))
      hits == SelectSeq(later, LAMBDA e : /\ e.op = "setState"
                                           /\ e.cap.index = i
                                           /\ Origin(fibers, e.cap.fiber) = Origin(fibers, f))
  IN [k \in 1..Len(hits) |-> hits[k].action]

\* C20: in the state a commit leaves, the state of every hook of the committed
\* generation is the initial value with every update function handed, since
\* the component was first committed, to any capability returned for that
\* hook (by the committed generations and by discarded walks alike), applied
\* once each in invocation order.
C20_NoUpdateLost ==
  Committed =>
    \A f \in Units(fibers, currentRoot) :
      \A i \in 1..Len(fibers[f].hooks) :
        fibers[f].hooks[i].state
          = AppliedInOrder(UpdatesOf(f, i), Len(UpdatesOf(f, i)), 1)

====
